---- MODULE Spec2Model ----
(***************************************************************************)
(* Model of opus_tmx_parser.py: the streaming extraction of aligned        *)
(* sentence pairs from TMX archives into two line-aligned text files.      *)
(*                                                                         *)
(* The process state is the two module globals LINES_LEFT and              *)
(* LANGUAGE_PAIRS, the local variables of main, and the position of the    *)
(* streaming walk.  The world outside the process is the two output        *)
(* files, the archive cache on disk, and the remote catalog/archive        *)
(* service, whose answers are recorded in remote so that a second run of   *)
(* the program meets the same answers.                                     *)
(***************************************************************************)
EXTENDS Integers, Sequences, FiniteSets, TLC

\* ------------------------------------------------------------------ bounds
MaxLines == 4       \* largest --max_lines
MaxChunk == 2       \* largest --line_write_len
MaxCorpora == 2     \* most corpora the catalog lists for the language pair
MaxUnits == 2       \* most translation units in all archives together
MaxHead == 2        \* longest free beginning of a sentence under test
MaxPad == 9         \* longest run of Latin letters in its middle
MaxTail == 1        \* longest free end of a sentence under test

\* --------------------------------------------------------- program constants
\* MAX_NONALPHA_RATIO = .1, kept as the fraction 1/10
MAX_NONALPHA_RATIO_NUM == 1
MAX_NONALPHA_RATIO_DEN == 10

CLD3_LANG_CODES == {"de", "en", "fr"}

\* ------------------------------------------------------------------ helpers
Min(a, b) == IF a <= b THEN a ELSE b

\* int(a / b) of Python for b > 0: true division, truncated towards zero
TruncDiv(a, b) == IF a >= 0 THEN a \div b ELSE 0 - ((0 - a) \div b)

\* --------------------------------------------------------------------- text
\* A character is one of five classes:
\*   "L" a Latin letter, "C" a letter of another script, "D" a digit or
\*   punctuation mark, "S" a blank, "N" a newline.
\* A text is its characters together with the verdict the language
\* identifier gives on it.
IsAlpha(c) == c \in {"L", "C"}
IsSpace(c) == c \in {"S", "N"}

Text(chars, lang, reliable) ==
    [chars |-> chars, lang |-> lang, is_reliable |-> reliable]

\* the default '' of language_pair.get(lang, '')
EmptyText == Text(<< >>, "und", FALSE)

RECURSIVE _alphabet(_)
_alphabet(chars) ==
    IF chars = << >> THEN "None"
    ELSE IF Head(chars) = "L" THEN "LATIN"
    ELSE IF Head(chars) = "C" THEN "CYRILLIC"
    ELSE _alphabet(Tail(chars))

RECURSIVE LStrip(_)
LStrip(chars) ==
    IF chars # << >> /\ IsSpace(Head(chars)) THEN LStrip(Tail(chars))
    ELSE chars

RECURSIVE RStrip(_)
RStrip(chars) ==
    IF chars # << >> /\ IsSpace(chars[Len(chars)])
    THEN RStrip(SubSeq(chars, 1, Len(chars) - 1))
    ELSE chars

ReplaceNewlines(chars) ==
    [i \in 1..Len(chars) |-> IF chars[i] = "N" THEN "S" ELSE chars[i]]

\* mutant of _clean_line: newlines are not replaced
CleanStripOnly(chars) == RStrip(LStrip(chars))

_clean_line(chars) == RStrip(LStrip(ReplaceNewlines(chars)))

_validate_language(text, language) ==
    IF language \notin CLD3_LANG_CODES THEN TRUE
    ELSE text.is_reliable /\ text.lang = language

NonalphaCount(chars) ==
    Cardinality({i \in 1..Len(chars) :
                    ~(IsAlpha(chars[i]) \/ IsSpace(chars[i]))})

\* the verdict of _validate_sentence; the division is reached only for a
\* text with a Latin letter, so its length is positive
_validate_sentence(text, language) ==
    IF _alphabet(text.chars) # "LATIN" \/ ~_validate_language(text, language)
    THEN FALSE
    ELSE NonalphaCount(text.chars) * MAX_NONALPHA_RATIO_DEN
            < MAX_NONALPHA_RATIO_NUM * Len(text.chars)

\* ------------------------------------------------------------ command line
\* -s / -t: the language pair of the run (-t defaults to 'en')
source_lang == "de"
target_lang == "en"

Args ==
    [max_lines : 0..MaxLines,
     line_write_len : 0..MaxChunk,
     all_corpora : BOOLEAN,
     keep_former_output_files : BOOLEAN]

\* -------------------------------------------------------- translation units
\* What the walker hands to the callback for one <tu>: the list of its <tuv>
\* children (xml:lang attribute, which may be missing, and <seg> text) and
\* the kind of path it is delivered with.
NoAttr == "NoAttr"

Tuv(lang, seg) == [lang |-> lang, seg |-> seg]

deGood == Text(<<"L", "N", "L", "S">>, "de", TRUE)
enGood == Text(<<"S", "L", "L">>, "en", TRUE)
frGood == Text(<<"L", "L">>, "fr", TRUE)
deCyrillic == Text(<<"C", "L">>, "de", TRUE)

uGood == [tuv |-> <<Tuv("de", deGood), Tuv("en", enGood)>>, path |-> "tuid"]
uBadSource ==
    [tuv |-> <<Tuv("de", deCyrillic), Tuv("en", enGood)>>, path |-> "tuid"]
uNoTarget ==
    [tuv |-> <<Tuv("de", deGood), Tuv("fr", frGood)>>, path |-> "noattrs"]
uNoLangAttr ==
    [tuv |-> <<Tuv(NoAttr, deGood), Tuv("en", enGood)>>, path |-> "tuid"]
uSingle == [tuv |-> <<Tuv("de", deGood)>>, path |-> "tuid"]

Units == {uGood, uBadSource, uNoTarget, uNoLangAttr, uSingle}

\* tree_dict['tuv'] is a list only when the unit has several <tuv> children;
\* a lone child is a dict, and indexing its keys raises TypeError.  A <tuv>
\* without xml:lang raises KeyError.  Neither is caught by the callback.
BuildRaises(unit) ==
    \/ Len(unit.tuv) < 2
    \/ \E i \in 1..Len(unit.tuv) : unit.tuv[i].lang = NoAttr

\* language_pair.get(lang, '') after the loop of lines 281-283: the last
\* <tuv> of a language wins
PairGet(unit, lang) ==
    LET hits == {i \in 1..Len(unit.tuv) : unit.tuv[i].lang = lang}
    IN IF hits = {} THEN EmptyText
       ELSE unit.tuv[CHOOSE i \in hits : \A j \in hits : j <= i].seg

\* the all(...) of lines 285-288
UnitValid(unit) ==
    /\ _validate_sentence(PairGet(unit, source_lang), source_lang)
    /\ _validate_sentence(PairGet(unit, target_lang), target_lang)

\* the debug message of lines 292-298: path[2][1].get('tuid') raises
\* IndexError or AttributeError on a short path or a unit without
\* attributes, and both are swallowed
IgnoredTu(path) ==
    IF path \in {"short", "noattrs"} THEN "swallowed" ELSE "logged"

\* ------------------------------------------------------------------- writer
\* A buffered pair remembers the unit it was built from (id); a line of an
\* output file is the cleaned sentence and the unit it was written for.
Line(pair, lang) ==
    [id |-> pair.id, text |-> _clean_line(PairGet(pair.unit, lang).chars)]

\* mutant of WriteLoop: the target line goes to the front of its file
RECURSIVE WriteLoopTargetFirst(_, _, _, _)
WriteLoopTargetFirst(pairs, left, sfile, tfile) ==
    IF pairs = << >> \/ left <= 0
    THEN [left |-> left, src |-> sfile, tgt |-> tfile]
    ELSE WriteLoopTargetFirst(Tail(pairs), left - 1,
                   Append(sfile, Line(Head(pairs), source_lang)),
                   <<Line(Head(pairs), target_lang)>> \o tfile)

\* mutant of WriteLoop: the quota is charged once per flush, not once per
\* line pair
RECURSIVE WriteLoopChargesOnce(_, _, _, _)
WriteLoopChargesOnce(pairs, left, sfile, tfile) ==
    IF pairs = << >> \/ left <= 0
    THEN [left |-> left, src |-> sfile, tgt |-> tfile]
    ELSE WriteLoopChargesOnce(Tail(pairs),
                   IF Len(pairs) = 1 THEN left - 1 ELSE left,
                   Append(sfile, Line(Head(pairs), source_lang)),
                   Append(tfile, Line(Head(pairs), target_lang)))

\* the loop of lines 406-412
RECURSIVE WriteLoop(_, _, _, _)
WriteLoop(pairs, left, sfile, tfile) ==
    IF pairs = << >> \/ left <= 0
    THEN [left |-> left, src |-> sfile, tgt |-> tfile]
    ELSE WriteLoop(Tail(pairs), left - 1,
                   Append(sfile, Line(Head(pairs), source_lang)),
                   Append(tfile, Line(Head(pairs), target_lang)))

\* mutant of _write_language_pairs: the buffer is not cleared after the loop
WriteKeepsBuffer(pairs, left, sfile, tfile) ==
    IF left <= 0
    THEN [pairs |-> pairs, left |-> left, src |-> sfile, tgt |-> tfile]
    ELSE LET w == WriteLoop(pairs, left, sfile, tfile)
         IN [pairs |-> pairs, left |-> w.left, src |-> w.src, tgt |-> w.tgt]

\* mutant of _write_language_pairs: the buffer is drained pair by pair, and
\* only the first pair is removed after the loop
WriteDrainsPartially(pairs, left, sfile, tfile) ==
    IF left <= 0
    THEN [pairs |-> pairs, left |-> left, src |-> sfile, tgt |-> tfile]
    ELSE LET w == WriteLoop(pairs, left, sfile, tfile)
         IN [pairs |-> IF pairs = << >> THEN << >> ELSE Tail(pairs),
             left |-> w.left, src |-> w.src, tgt |-> w.tgt]

\* lines 393-415
_write_language_pairs(pairs, left, sfile, tfile) ==
    IF left <= 0
    THEN [pairs |-> pairs, left |-> left, src |-> sfile, tgt |-> tfile]
    ELSE LET w == WriteLoop(pairs, left, sfile, tfile)
         IN [pairs |-> << >>, left |-> w.left, src |-> w.src, tgt |-> w.tgt]

\* ----------------------------------------------------------------- callback
\* mutant of FlushDue: only the chunk boundary triggers a flush
FlushDueChunkOnly(n, line_write_len, left) ==
    n # 0 /\ n % line_write_len = 0

\* the flush condition of lines 300-306; the modulo is evaluated first
FlushDue(n, line_write_len, left) ==
    n # 0 /\ (n % line_write_len = 0 \/ n >= left)

\* mutant of Buffered: only the source sentence is validated
BufferedSourceOnly(pairs, id, unit) ==
    IF _validate_sentence(PairGet(unit, source_lang), source_lang)
    THEN Append(pairs, [id |-> id, unit |-> unit])
    ELSE pairs

\* lines 285-289: a unit is appended to the buffer only when both of its
\* sentences validate
Buffered(pairs, id, unit) ==
    IF UnitValid(unit) THEN Append(pairs, [id |-> id, unit |-> unit])
    ELSE pairs

\* _parse_language_pairs for one unit.  result is "continue" (returns True),
\* "stop" (returns None, which makes the walker raise ParsingInterrupted) or
\* "error" (an exception other than ParsingInterrupted leaves the callback).
\* The exceptions are, in the order of the code: KeyError/TypeError while
\* language_pair is built, an exception of the debug message that is not
\* swallowed, and ZeroDivisionError of the modulo when line_write_len is 0.
_parse_language_pairs(line_write_len, id, unit, pairs, left, sfile, tfile) ==
    LET same(r) == [result |-> r, pairs |-> pairs, left |-> left,
                    src |-> sfile, tgt |-> tfile]
    IN IF left <= 0 THEN same("stop")
       ELSE IF BuildRaises(unit) THEN same("error")
       ELSE LET valid == UnitValid(unit)
                buf == Buffered(pairs, id, unit)
            IN IF ~valid /\ IgnoredTu(unit.path) = "raised"
               THEN same("error")
               ELSE IF Len(buf) # 0 /\ line_write_len = 0
               THEN [result |-> "error", pairs |-> buf, left |-> left,
                     src |-> sfile, tgt |-> tfile]
               ELSE IF FlushDue(Len(buf), line_write_len, left)
               THEN LET w == _write_language_pairs(buf, left, sfile, tfile)
                    IN [result |-> "continue", pairs |-> w.pairs,
                        left |-> w.left, src |-> w.src, tgt |-> w.tgt]
               ELSE [result |-> "continue", pairs |-> buf, left |-> left,
                     src |-> sfile, tgt |-> tfile]

\* -------------------------------------------------------------------- state
VARIABLES
    args,              \* the parsed command line, the same for both runs
    run,               \* 1 for the first run of the program, 2 for the re-run
    pc,                \* where main is: start, loop, fetch_corpus, walk,
                       \* final, done, error (an unhandled exception)
    LINES_LEFT,        \* module global: the remaining quota
    LANGUAGE_PAIRS,    \* module global: the pair buffer
    lines_per_corpus,  \* local of main
    corpora,           \* local of main: how many corpora the catalog listed
    idx,               \* position of the loop of main in that list
    pos,               \* units the walker has delivered from the archive
    quota0,            \* LINES_LEFT when the current corpus began
    source_file,       \* lines of <source>.txt
    target_file,       \* lines of <target>.txt
    cache,             \* per corpus, the archive file on disk
    remote,            \* the answers of the catalog and archive service
    first_output,      \* the two files as the first run left them
    returned,          \* how the latest call of _fetch_corpus ended: "abort"
                       \* (an early return) or "flush" (after line 164)
    text,              \* the sentence handed to the validator or cleaner
    language,          \* the language it is validated for
    outcome            \* what the validator or the cleaner returned

vars == <<args, run, pc, LINES_LEFT, LANGUAGE_PAIRS, lines_per_corpus,
          corpora, idx, pos, quota0, source_file, target_file, cache,
          remote, first_output, returned, text, language, outcome>>

\* the variables of the sentence functions; the pipeline leaves them alone
tvars == <<text, language, outcome>>

NoOutcome == [op |-> "none", verdict |-> FALSE, line |-> << >>]

Corpora == 1..MaxCorpora

OldLine == [id |-> <<0, 0, 1>>, text |-> <<"L">>]

Unasked == "?"

\* an answer is drawn when it is first asked for and repeated afterwards
Answer(recorded, choices) == IF recorded = Unasked THEN choices ELSE {recorded}

Init ==
    /\ args \in Args
    /\ run = 1
    /\ pc = "start"
    /\ LINES_LEFT = 0
    /\ LANGUAGE_PAIRS = << >>
    /\ lines_per_corpus = 0
    /\ corpora = 0
    /\ idx = 0
    /\ pos = 0
    /\ quota0 = 0
    /\ source_file = <<OldLine>>
    /\ target_file = <<OldLine>>
    /\ cache = [c \in Corpora |-> "absent"]
    /\ remote = [corpora |-> -1,
                 corpus |-> [c \in Corpora |->
                    [catalog |-> Unasked, fetch |-> Unasked,
                     stream |-> << >>, end |-> Unasked]]]
    /\ first_output = << >>
    /\ returned = "none"
    /\ text = EmptyText
    /\ language = source_lang
    /\ outcome = NoOutcome

\* lines 446-460: delete the former output files unless -k is given
Former(file) == IF args.keep_former_output_files THEN file ELSE << >>

\* ------------------------------------------------------------------- main
\* lines 419-460 and 491-500: without -a, main passes the unbound local
\* name corpus to _fetch_corpus, which raises UnboundLocalError
MainSingle ==
    /\ pc = "start"
    /\ ~args.all_corpora
    /\ LINES_LEFT' = args.max_lines
    /\ source_file' = Former(source_file)
    /\ target_file' = Former(target_file)
    /\ pc' = "error"
    /\ UNCHANGED <<args, run, LANGUAGE_PAIRS, lines_per_corpus, corpora, idx,
                   pos, quota0, cache, remote, first_output, returned>>
    /\ UNCHANGED tvars

\* mutant of LinesPerCorpus: the quota is not divided
LinesPerCorpusWhole(left, n) == left

\* line 474: the even split of the quota over the corpora
LinesPerCorpus(left, n) == TruncDiv(left, n)

\* mutant of AfterReturn: a return of _fetch_corpus ends the run
ReturnEndsRun == "done"

\* lines 122, 125, 142, 164: _fetch_corpus returns and main is back in its
\* loop over the corpora
AfterReturn == "loop"

\* lines 419-474 with -a: _fetch_corpora answers with the list of corpora
\* (False or an empty list is 0 corpora, and main returns)
MainAll ==
    /\ pc = "start"
    /\ args.all_corpora
    /\ \E n \in (IF remote.corpora < 0 THEN 0..MaxCorpora
                                        ELSE {remote.corpora}) :
          /\ remote' = [remote EXCEPT !.corpora = n]
          /\ corpora' = n
          /\ IF n = 0
             THEN /\ pc' = "done"
                  /\ UNCHANGED lines_per_corpus
             ELSE /\ pc' = "loop"
                  /\ lines_per_corpus' = LinesPerCorpus(args.max_lines, n)
    /\ LINES_LEFT' = args.max_lines
    /\ source_file' = Former(source_file)
    /\ target_file' = Former(target_file)
    /\ idx' = 0
    /\ UNCHANGED <<args, run, LANGUAGE_PAIRS, pos, quota0, cache,
                   first_output, returned>>
    /\ UNCHANGED tvars

\* mutant of CorpusQuota: a non-positive split is used as it is
CorpusQuotaNoFallback(per_corpus, max_lines) == per_corpus

\* lines 476-479: the quota the next corpus starts with
CorpusQuota(per_corpus, max_lines) ==
    IF per_corpus > 0 THEN per_corpus ELSE max_lines

\* lines 475-481: the loop takes the next corpus and calls _fetch_corpus
LoopNext ==
    /\ pc = "loop"
    /\ idx < corpora
    /\ idx' = idx + 1
    /\ LINES_LEFT' = CorpusQuota(lines_per_corpus, args.max_lines)
    /\ quota0' = LINES_LEFT'
    /\ pc' = "fetch_corpus"
    /\ returned' = "none"
    /\ UNCHANGED <<args, run, LANGUAGE_PAIRS, lines_per_corpus, corpora, pos,
                   source_file, target_file, cache, remote, first_output>>
    /\ UNCHANGED tvars

\* line 475: the list is exhausted and main returns
LoopEnd ==
    /\ pc = "loop"
    /\ idx = corpora
    /\ pc' = "done"
    /\ UNCHANGED <<args, run, LINES_LEFT, LANGUAGE_PAIRS, lines_per_corpus,
                   corpora, idx, pos, quota0, source_file, target_file,
                   cache, remote, first_output, returned>>
    /\ UNCHANGED tvars

\* ------------------------------------------------------------ _fetch_corpus
\* lines 121-125: the corpus or one of the languages is not in the catalog
\* (or the catalog request fails) and _fetch_corpus returns
CatalogAbort ==
    /\ pc = "fetch_corpus"
    /\ \E a \in Answer(remote.corpus[idx].catalog,
                       {"ok", "rejected"}) :
          /\ a # "ok"
          /\ remote' = [remote EXCEPT !.corpus[idx].catalog = a]
    /\ pc' = AfterReturn
    /\ returned' = "abort"
    /\ UNCHANGED <<args, run, LINES_LEFT, LANGUAGE_PAIRS, lines_per_corpus,
                   corpora, idx, pos, quota0, source_file, target_file,
                   cache, first_output>>
    /\ UNCHANGED tvars

\* lines 130-142: no archive on disk and _fetch_and_write_tmx_file returns
\* False: either before the archive file is opened for writing ("failed",
\* lines 70-91) or after the download was written with a size other than
\* the declared one ("truncated", lines 97-107), which leaves the file
AcquireAbort ==
    /\ pc = "fetch_corpus"
    /\ cache[idx] = "absent"
    /\ \E a \in Answer(remote.corpus[idx].catalog, {"ok"}),
          f \in Answer(remote.corpus[idx].fetch,
                       {"ok", "failed", "truncated"}) :
          /\ a = "ok"
          /\ f # "ok"
          /\ remote' = [remote EXCEPT !.corpus[idx].catalog = a,
                                      !.corpus[idx].fetch = f]
          /\ cache' = [cache EXCEPT
                          ![idx] = IF f = "truncated" THEN "partial" ELSE @]
    /\ pc' = AfterReturn
    /\ returned' = "abort"
    /\ UNCHANGED <<args, run, LINES_LEFT, LANGUAGE_PAIRS, lines_per_corpus,
                   corpora, idx, pos, quota0, source_file, target_file,
                   first_output>>
    /\ UNCHANGED tvars

\* lines 127-155: the archive is on disk, or is fetched and written in
\* full, and the walk over it begins
Acquire ==
    /\ pc = "fetch_corpus"
    /\ \E a \in Answer(remote.corpus[idx].catalog, {"ok"}) :
          /\ a = "ok"
          /\ IF cache[idx] = "absent"
             THEN \E f \in Answer(remote.corpus[idx].fetch, {"ok"}) :
                     /\ f = "ok"
                     /\ remote' = [remote EXCEPT !.corpus[idx].catalog = a,
                                                 !.corpus[idx].fetch = f]
                     /\ cache' = [cache EXCEPT ![idx] = "complete"]
             ELSE /\ remote' = [remote EXCEPT !.corpus[idx].catalog = a]
                  /\ UNCHANGED cache
    /\ pos' = 0
    /\ pc' = "walk"
    /\ UNCHANGED <<args, run, LINES_LEFT, LANGUAGE_PAIRS, lines_per_corpus,
                   corpora, idx, quota0, source_file, target_file,
                   first_output, returned>>
    /\ UNCHANGED tvars

RECURSIVE SumLen(_, _)
SumLen(streams, c) ==
    IF c = 0 THEN 0 ELSE Len(streams[c].stream) + SumLen(streams, c - 1)

\* the units the archives are known to hold so far
TotalUnits == SumLen(remote.corpus, MaxCorpora)

\* mutant of AfterCallback: ParsingInterrupted is not caught
AfterCallbackUncaught(result) ==
    CASE result = "continue" -> "walk"
      [] result = "stop" -> "error"
      [] result = "error" -> "error"

\* what xmltodict.parse does with the callback's outcome (lines 155-162):
\* a falsy return raises ParsingInterrupted, which is caught; any other
\* exception leaves _fetch_corpus and main
AfterCallback(result) ==
    CASE result = "continue" -> "walk"
      [] result = "stop" -> "final"
      [] result = "error" -> "error"

\* lines 158-160, 268-311: the walker delivers the next <tu> of the archive
\* to the callback
OnUnit ==
    /\ pc = "walk"
    /\ remote.corpus[idx].end = Unasked \/ pos < Len(remote.corpus[idx].stream)
    /\ \E unit \in (IF pos < Len(remote.corpus[idx].stream)
                    THEN {remote.corpus[idx].stream[pos + 1]}
                    ELSE IF TotalUnits < MaxUnits THEN Units ELSE {}) :
          LET r == _parse_language_pairs(args.line_write_len,
                      <<run, idx, pos + 1>>, unit, LANGUAGE_PAIRS,
                      LINES_LEFT, source_file, target_file)
          IN /\ remote' = [remote EXCEPT !.corpus[idx].stream =
                              IF pos < Len(@) THEN @ ELSE Append(@, unit)]
             /\ LANGUAGE_PAIRS' = r.pairs
             /\ LINES_LEFT' = r.left
             /\ source_file' = r.src
             /\ target_file' = r.tgt
             /\ pc' = AfterCallback(r.result)
    /\ pos' = pos + 1
    /\ UNCHANGED <<args, run, lines_per_corpus, corpora, idx, quota0, cache,
                   first_output, returned>>
    /\ UNCHANGED tvars

\* lines 155-162: the archive has no further unit.  A complete archive ends
\* the walk normally; reading an archive left behind by a failed download
\* may instead raise (EOFError, ExpatError), which is not caught
EndOfStream ==
    /\ pc = "walk"
    /\ pos = Len(remote.corpus[idx].stream)
    /\ \E e \in Answer(remote.corpus[idx].end,
                       IF cache[idx] = "partial" THEN {"eof", "broken"}
                                                 ELSE {"eof"}) :
          /\ remote' = [remote EXCEPT !.corpus[idx].end = e]
          /\ pc' = IF e = "eof" THEN "final" ELSE "error"
    /\ UNCHANGED <<args, run, LINES_LEFT, LANGUAGE_PAIRS, lines_per_corpus,
                   corpora, idx, pos, quota0, source_file, target_file,
                   cache, first_output, returned>>
    /\ UNCHANGED tvars

\* mutant of FinalFlush: _fetch_corpus returns without the flush of line 164
FinalFlushSkipped ==
    /\ pc = "final"
    /\ pc' = AfterReturn
    /\ returned' = "flush"
    /\ UNCHANGED <<args, run, LINES_LEFT, LANGUAGE_PAIRS, lines_per_corpus,
                   corpora, idx, pos, quota0, source_file, target_file,
                   cache, remote, first_output>>
    /\ UNCHANGED tvars

\* line 164: the final flush, after which _fetch_corpus returns to the loop
FinalFlush ==
    /\ pc = "final"
    /\ LET w == _write_language_pairs(LANGUAGE_PAIRS, LINES_LEFT,
                                      source_file, target_file)
       IN /\ LANGUAGE_PAIRS' = w.pairs
          /\ LINES_LEFT' = w.left
          /\ source_file' = w.src
          /\ target_file' = w.tgt
    /\ pc' = AfterReturn
    /\ returned' = "flush"
    /\ UNCHANGED <<args, run, lines_per_corpus, corpora, idx, pos, quota0,
                   cache, remote, first_output>>
    /\ UNCHANGED tvars

\* ------------------------------------------------------------------- re-run
\* the program is started a second time with the same command line: a new
\* process (lines 41-44 set the globals again), the same disk and the same
\* remote service
Rerun ==
    /\ run = 1
    /\ pc \in {"done", "error"}
    /\ run' = 2
    /\ first_output' = <<source_file, target_file>>
    /\ pc' = "start"
    /\ LINES_LEFT' = 0
    /\ LANGUAGE_PAIRS' = << >>
    /\ lines_per_corpus' = 0
    /\ corpora' = 0
    /\ idx' = 0
    /\ pos' = 0
    /\ quota0' = 0
    /\ returned' = "none"
    /\ UNCHANGED <<args, source_file, target_file, cache, remote>>
    /\ UNCHANGED tvars

Next ==
    \/ MainSingle
    \/ MainAll
    \/ LoopNext
    \/ LoopEnd
    \/ CatalogAbort
    \/ AcquireAbort
    \/ Acquire
    \/ OnUnit
    \/ EndOfStream
    \/ FinalFlush
    \/ Rerun

Spec == Init /\ [][Next]_vars

TypeOK ==
    /\ args \in Args
    /\ run \in 1..2
    /\ pc \in {"start", "loop", "fetch_corpus", "walk", "final", "done",
               "error"}
    /\ LINES_LEFT \in 0..MaxLines
    /\ Len(LANGUAGE_PAIRS) <= MaxUnits
    /\ idx \in 0..MaxCorpora
    /\ pos \in 0..(MaxUnits + 1)

\* ------------------------------------------------------ sentence functions
\* The validator and the cleaner applied to one sentence: a free beginning
\* and end of any characters around a run of Latin letters, with each
\* verdict the language identifier can give on it.
CharClasses == {"L", "C", "D", "S", "N"}

SeqsUpTo(n) == UNION {[1..k -> CharClasses] : k \in 0..n}

Pad(k) == [i \in 1..k |-> "L"]

Sentences ==
    {Text(h \o Pad(k) \o t, d[1], d[2]) :
        h \in SeqsUpTo(MaxHead), k \in 0..MaxPad, t \in SeqsUpTo(MaxTail),
        d \in {<<"de", TRUE>>, <<"de", FALSE>>, <<"fr", TRUE>>}}

\* "xx" is a language code the identifier does not know
InitText ==
    /\ args = [max_lines |-> 0, line_write_len |-> 1, all_corpora |-> TRUE,
               keep_former_output_files |-> FALSE]
    /\ run = 1
    /\ pc = "start"
    /\ LINES_LEFT = 0
    /\ LANGUAGE_PAIRS = << >>
    /\ lines_per_corpus = 0
    /\ corpora = 0
    /\ idx = 0
    /\ pos = 0
    /\ quota0 = 0
    /\ source_file = << >>
    /\ target_file = << >>
    /\ cache = [c \in Corpora |-> "absent"]
    /\ remote = [corpora |-> -1,
                 corpus |-> [c \in Corpora |->
                    [catalog |-> Unasked, fetch |-> Unasked,
                     stream |-> << >>, end |-> Unasked]]]
    /\ first_output = << >>
    /\ returned = "none"
    /\ text \in Sentences
    /\ language \in {"de", "xx"}
    /\ outcome = NoOutcome

pvars == <<args, run, pc, LINES_LEFT, LANGUAGE_PAIRS, lines_per_corpus,
           corpora, idx, pos, quota0, source_file, target_file, cache,
           remote, first_output, returned>>

\* lines 285-288: _validate_sentence is called on the sentence
Validate ==
    /\ outcome.op = "none"
    /\ outcome' = [op |-> "validate",
                   verdict |-> _validate_sentence(text, language),
                   line |-> << >>]
    /\ UNCHANGED <<text, language>>
    /\ UNCHANGED pvars

\* lines 410-411: _clean_line is called on the sentence, and the result is
\* written followed by a newline
Clean ==
    /\ outcome.op = "none"
    /\ outcome' = [op |-> "clean", verdict |-> FALSE,
                   line |-> _clean_line(text.chars)]
    /\ UNCHANGED <<text, language>>
    /\ UNCHANGED pvars

NextText ==
    \/ Validate
    \/ Clean

SpecText == InitText /\ [][NextText]_vars

\* ================================================================== claims
\* the lines a run has appended to a file, and those written for one corpus
RunLines(file, r) == SelectSeq(file, LAMBDA l : l.id[1] = r)
CorpusLines(file, r, c) ==
    SelectSeq(file, LAMBDA l : l.id[1] = r /\ l.id[2] = c)
Ids(file) == [i \in 1..Len(file) |-> file[i].id]
Texts(file) == [i \in 1..Len(file) |-> file[i].text]

\* the unit of the archives a line or buffered pair was made from
UnitOf(id) == remote.corpus[id[2]].stream[id[3]]

\* the unit the walker delivered last
Delivered == remote.corpus[idx].stream[pos]

\* document order of units: by run, then corpus, then position
IdLess(a, b) ==
    \/ a[1] < b[1]
    \/ a[1] = b[1] /\ a[2] < b[2]
    \/ a[1] = b[1] /\ a[2] = b[2] /\ a[3] < b[3]

\* the positions of the units of a stream that validate, in order
RECURSIVE ValidPositions(_, _)
ValidPositions(stream, from) ==
    IF from > Len(stream) THEN << >>
    ELSE IF ~BuildRaises(stream[from]) /\ UnitValid(stream[from])
    THEN <<from>> \o ValidPositions(stream, from + 1)
    ELSE ValidPositions(stream, from + 1)

\* C1: the line pairs one run of main appends to the output files never
\* number more than max_lines.
QuotaNeverExceeded ==
    /\ Len(RunLines(source_file, run)) <= args.max_lines
    /\ Len(RunLines(target_file, run)) <= args.max_lines

\* C2: the two files have the same number of lines, the Nth line of each
\* is the cleaned sentence of the same unit, and the lines stand in the
\* order in which the units were delivered.
Alignment ==
    /\ Len(source_file) = Len(target_file)
    /\ \A n \in 1..Len(source_file) :
          /\ n <= Len(target_file)
          /\ source_file[n].id = target_file[n].id
          /\ source_file[n].id[1] >= 1 =>
                LET u == UnitOf(source_file[n].id)
                IN /\ source_file[n].text
                        = _clean_line(PairGet(u, source_lang).chars)
                   /\ target_file[n].text
                        = _clean_line(PairGet(u, target_lang).chars)
    /\ \A m, n \in 1..Len(source_file) :
          m < n => IdLess(source_file[m].id, source_file[n].id)

AlignmentWitness ==
    \E n \in 1..(Len(source_file) - 1) :
       /\ Len(target_file) = Len(source_file)
       /\ source_file[n].id[2] = 1
       /\ source_file[n + 1].id[2] = 2
       /\ target_file[n + 1].id = source_file[n + 1].id

\* C3: a unit that fails validation for the source or the target language
\* leaves the buffer, both files and the quota as they were, and no
\* buffered pair and no written line comes from such a unit.
NoInvalidStored ==
    /\ \A i \in 1..Len(LANGUAGE_PAIRS) : UnitValid(LANGUAGE_PAIRS[i].unit)
    /\ \A n \in 1..Len(source_file) :
          source_file[n].id[1] >= 1 => UnitValid(UnitOf(source_file[n].id))
    /\ \A n \in 1..Len(target_file) :
          target_file[n].id[1] >= 1 => UnitValid(UnitOf(target_file[n].id))

InvalidUnitDropped ==
    /\ []NoInvalidStored
    /\ [][(/\ pc = "walk"
           /\ pos' = pos + 1
           /\ ~BuildRaises(Delivered')
           /\ ~UnitValid(Delivered'))
          => /\ LANGUAGE_PAIRS' = LANGUAGE_PAIRS
             /\ source_file' = source_file
             /\ target_file' = target_file
             /\ LINES_LEFT' = LINES_LEFT]_vars

InvalidUnitDroppedWitness ==
    /\ pc = "walk"
    /\ pos = 2
    /\ LINES_LEFT > 0
    /\ Len(LANGUAGE_PAIRS) = 1
    /\ ~BuildRaises(Delivered)
    /\ ~UnitValid(Delivered)

\* C4: when the quota of a corpus runs out during the walk, then after the
\* final flush the lines written for the corpus are exactly the first
\* min(quota at corpus start, valid units of the stream) valid units of the
\* stream, each once and in document order, in both files.
ExpectedIds(r, c, quota) ==
    LET valid == ValidPositions(remote.corpus[c].stream, 1)
        n == Min(quota, Len(valid))
    IN [i \in 1..n |-> <<r, c, valid[i]>>]

ExactlyOnceOnInterruption ==
    (/\ returned = "flush"
     /\ quota0 > 0
     /\ LINES_LEFT <= 0)
    => /\ Ids(CorpusLines(source_file, run, idx))
            = ExpectedIds(run, idx, quota0)
       /\ Ids(CorpusLines(target_file, run, idx))
            = ExpectedIds(run, idx, quota0)

ExactlyOnceWitness ==
    /\ returned = "flush"
    /\ quota0 = 1
    /\ LINES_LEFT = 0
    /\ pos = 2
    /\ Len(CorpusLines(source_file, run, idx)) = 1

SubQuotaRecomputed ==
    pc = "fetch_corpus" =>
        LET remaining == args.max_lines - Len(RunLines(source_file, run))
            split == TruncDiv(remaining, corpora)
        IN split > 0 => LINES_LEFT = split

\* C6 as amended: the split is taken once, from max_lines, and every
\* corpus begins with that same floor(max_lines / corpora) when it is
\* positive, whatever earlier corpora wrote or left unused.
SubQuotaComputedOnce ==
    (/\ pc = "fetch_corpus"
     /\ TruncDiv(args.max_lines, corpora) > 0)
    => /\ LINES_LEFT = TruncDiv(args.max_lines, corpora)
       /\ lines_per_corpus = TruncDiv(args.max_lines, corpora)

SubQuotaComputedOnceWitness ==
    /\ pc = "fetch_corpus"
    /\ corpora = 2
    /\ idx = 2
    /\ args.max_lines = 4
    /\ LINES_LEFT = 2
    /\ Len(CorpusLines(source_file, run, 1)) = 1

\* C7: a unit with malformed markup (a <tuv> without xml:lang, or a unit
\* delivered without its identifier or path segments) is dropped alone: no
\* error leaves the walk, the buffer is as before, and the walk goes on.
MalformedMarkup(unit) ==
    \/ \E i \in 1..Len(unit.tuv) : unit.tuv[i].lang = NoAttr
    \/ unit.path \in {"noattrs", "short"}

StructuralErrorsConfined ==
    [][(/\ pc = "walk"
        /\ pos' = pos + 1
        /\ LINES_LEFT > 0
        /\ MalformedMarkup(Delivered'))
       => /\ pc' = "walk"
          /\ LANGUAGE_PAIRS' = LANGUAGE_PAIRS]_vars

\* C8: an early return of _fetch_corpus (catalog or download failure)
\* changes neither file nor the buffer and hands control back to the loop,
\* and the loop, while corpora are left, goes on to the next one of the list.
AbortConfined ==
    [][/\ (pc = "fetch_corpus" /\ pc' # "walk")
          => /\ pc' = "loop"
             /\ idx' = idx
             /\ source_file' = source_file
             /\ target_file' = target_file
             /\ LANGUAGE_PAIRS' = LANGUAGE_PAIRS
       /\ (pc = "loop" /\ idx < corpora)
          => /\ pc' = "fetch_corpus"
             /\ idx' = idx + 1]_vars

AbortConfinedWitness ==
    /\ run = 1
    /\ pc = "loop"
    /\ idx = 2
    /\ returned = "flush"
    /\ remote.corpus[1].catalog = "rejected"
    /\ Len(CorpusLines(source_file, run, 1)) = 0
    /\ Len(CorpusLines(source_file, run, 2)) = 1

\* C9: without -k, a second run with the same inputs leaves each output
\* file with the content the first run left.
RerunIdempotent ==
    (/\ run = 2
     /\ pc \in {"done", "error"}
     /\ ~args.keep_former_output_files)
    => /\ Texts(source_file) = Texts(first_output[1])
       /\ Texts(target_file) = Texts(first_output[2])

\* C10: without -a, main runs the extraction once and ends without an
\* unhandled error.
SingleCorpusCompletes ==
    ~args.all_corpora => pc # "error"

\* C11: a sentence that passes the script and the language check is
\* rejected if and only if the share of its characters that are neither
\* alphabetic nor whitespace exceeds 10%; at exactly 10% it is accepted.
RatioFilter ==
    (/\ outcome.op = "validate"
     /\ _alphabet(text.chars) = "LATIN"
     /\ _validate_language(text, language))
    => (outcome.verdict = FALSE
        <=> NonalphaCount(text.chars) * MAX_NONALPHA_RATIO_DEN
               > MAX_NONALPHA_RATIO_NUM * Len(text.chars))

\* C12: the cleaned sentence is the sentence with every newline turned into
\* a blank and the whitespace at both ends removed: it holds no newline, so
\* that written with its terminator it is exactly one line.
CleanedLine ==
    outcome.op = "clean" =>
        LET line == outcome.line
            r == [i \in 1..Len(text.chars) |->
                     IF text.chars[i] = "N" THEN "S" ELSE text.chars[i]]
        IN /\ \A i \in 1..Len(line) : line[i] # "N"
           /\ line # << >> =>
                 ~IsSpace(line[1]) /\ ~IsSpace(line[Len(line)])
           /\ \E a \in 0..Len(r) :
                 /\ a + Len(line) <= Len(r)
                 /\ \A i \in 1..Len(line) : line[i] = r[a + i]
                 /\ \A i \in 1..a : IsSpace(r[i])
                 /\ \A i \in (a + Len(line) + 1)..Len(r) : IsSpace(r[i])

CleanedLineWitness ==
    /\ outcome.op = "clean"
    /\ text.chars = <<"L", "N", "L", "S">>
    /\ outcome.line = <<"L", "S", "L">>

\* C13: with the quota at zero or below, the next callback adds nothing to
\* the buffer, writes nothing and asks the walker to stop, and the
\* interruption ends the walk inside _fetch_corpus, which goes on to its
\* final flush instead of failing.
StopOnExhaustedQuota ==
    [][(/\ pc = "walk"
        /\ pos' = pos + 1
        /\ LINES_LEFT <= 0)
       => /\ LANGUAGE_PAIRS' = LANGUAGE_PAIRS
          /\ source_file' = source_file
          /\ target_file' = target_file
          /\ LINES_LEFT' = LINES_LEFT
          /\ pc' = "final"]_vars

StopOnExhaustedQuotaWitness ==
    /\ pc = "final"
    /\ quota0 = 1
    /\ LINES_LEFT = 0
    /\ pos = 2
    /\ LANGUAGE_PAIRS = << >>

\* C14: after the callback has handled a unit, the writer is invoked if and
\* only if the buffer size is a positive multiple of the chunk size or has
\* reached the remaining quota.  (An invocation with a non-empty buffer and
\* quota left appends at least one line, which is how it is observed.)
FlushTrigger ==
    [][(/\ pc = "walk"
        /\ pos' = pos + 1
        /\ LINES_LEFT > 0
        /\ ~BuildRaises(Delivered'))
       => LET n == Len(Buffered(LANGUAGE_PAIRS, <<run, idx, pos'>>,
                                Delivered'))
              multiple == /\ args.line_write_len > 0
                          /\ n % args.line_write_len = 0
          IN (source_file' # source_file)
                <=> (n > 0 /\ (multiple \/ n >= LINES_LEFT))]_vars

\* C15: within one corpus, the quota the corpus started with minus the
\* remaining quota is the number of line pairs appended to each output file
\* for that corpus, and a quota that started non-negative never drops below
\* zero.
QuotaCountsLines ==
    idx >= 1 =>
        /\ quota0 - LINES_LEFT = Len(CorpusLines(source_file, run, idx))
        /\ quota0 - LINES_LEFT = Len(CorpusLines(target_file, run, idx))
        /\ quota0 >= 0 => LINES_LEFT >= 0

QuotaCountsLinesWitness ==
    /\ pc = "walk"
    /\ args.line_write_len = 2
    /\ quota0 = 3
    /\ LINES_LEFT = 1
    /\ LANGUAGE_PAIRS = << >>
    /\ Len(CorpusLines(source_file, run, idx)) = 2

\* C16: after every invocation of the writer in a run (the final flush of
\* line 164, and the flush of lines 307-309, seen by the lines it appends)
\* the buffer is empty, also when the quota was already exhausted.
FlushClearsBuffer ==
    [][(\/ pc = "final"
        \/ pc = "walk" /\ source_file' # source_file)
       => LANGUAGE_PAIRS' = << >>]_vars

FlushClearsBufferWitness ==
    /\ pc = "walk"
    /\ args.line_write_len = 2
    /\ pos = 2
    /\ Len(CorpusLines(source_file, run, idx)) = 2
    /\ LANGUAGE_PAIRS = << >>

\* C17: when _fetch_corpus has returned after a stream that ended normally
\* and held fewer valid units than the quota the corpus started with, every
\* valid unit of the stream has been written once, in order, including the
\* remainder below the chunk size, and the buffer is empty.
StreamEndedNormally ==
    /\ pc = "loop"
    /\ returned = "flush"
    /\ remote.corpus[idx].end = "eof"
    /\ pos = Len(remote.corpus[idx].stream)
    /\ Len(ValidPositions(remote.corpus[idx].stream, 1)) < quota0

FinalFlushWritesRemainder ==
    StreamEndedNormally =>
        LET valid == ValidPositions(remote.corpus[idx].stream, 1)
            ids == [i \in 1..Len(valid) |-> <<run, idx, valid[i]>>]
        IN /\ Ids(CorpusLines(source_file, run, idx)) = ids
           /\ Ids(CorpusLines(target_file, run, idx)) = ids
           /\ LANGUAGE_PAIRS = << >>

FinalFlushWritesRemainderWitness ==
    /\ StreamEndedNormally
    /\ args.line_write_len = 2
    /\ pos = 2
    /\ Len(CorpusLines(source_file, run, idx)) = 1

WriterInvoked(n) ==
    \/ pc = "final" /\ n = Len(LANGUAGE_PAIRS)
    \/ /\ pc = "walk"
       /\ source_file' # source_file
       /\ n = Len(Buffered(LANGUAGE_PAIRS, <<run, idx, pos'>>, Delivered'))

NoCarryOver ==
    /\ [](/\ LINES_LEFT <= 0 => LANGUAGE_PAIRS = << >>
          /\ pc \in {"fetch_corpus", "loop", "done"}
                => LANGUAGE_PAIRS = << >>
          /\ \A i \in 1..Len(LANGUAGE_PAIRS) :
                LANGUAGE_PAIRS[i].id[1] = run /\ LANGUAGE_PAIRS[i].id[2] = idx)
    /\ [][/\ \A i \in (Len(source_file) + 1)..Len(source_file') :
                /\ source_file'[i].id[1] = run
                /\ source_file'[i].id[2] = idx
          /\ \A i \in (Len(target_file) + 1)..Len(target_file') :
                /\ target_file'[i].id[1] = run
                /\ target_file'[i].id[2] = idx]_vars

NoCarryOverWitness ==
    /\ pc = "walk"
    /\ idx = 2
    /\ LINES_LEFT = 0
    /\ LANGUAGE_PAIRS = << >>
    /\ Len(CorpusLines(source_file, run, 1)) = 1
    /\ Len(CorpusLines(source_file, run, 2)) = 1

\* the unit holds no sentence for the source or for the target language
LacksSentence(unit) ==
    \E lang \in {source_lang, target_lang} :
        \A i \in 1..Len(unit.tuv) : unit.tuv[i].lang # lang

\* C20: a unit that lacks a sentence for the source or the target language
\* is rejected by validation as an ordinary false verdict: the callback
\* raises no error, buffers nothing and the walk goes on.
MissingSentenceRejected ==
    [][(/\ pc = "walk"
        /\ pos' = pos + 1
        /\ LINES_LEFT > 0
        /\ LacksSentence(Delivered'))
       => /\ pc' = "walk"
          /\ LANGUAGE_PAIRS' = LANGUAGE_PAIRS
          /\ source_file' = source_file
          /\ target_file' = target_file]_vars

====
